---- MODULE Spec2Model ----
(***************************************************************************)
(* Broken-link checker (src/main.py): one seed page is fetched, its <a     *)
(* href> values are resolved against the seed URL and validated, and each  *)
(* resulting link is probed once with a HEAD request.                      *)
(*                                                                         *)
(* A Python str is a sequence of one-character strings, so that            *)
(* startswith, urlparse and urljoin are computed character by character.   *)
(* Log and status messages, which the program only builds and never        *)
(* inspects, are TLA+ strings.                                             *)
(***************************************************************************)
EXTENDS Integers, Sequences, FiniteSets, TLC

VARIABLES
    pc,             \* control point of the running function
    base_url,       \* main: args.url / get_all_links: base_url
    page,           \* the web: the href values of the <a> tags the seed server would send
    soup,           \* get_all_links: soup.find_all('a', href=True) once parsed, else None
    k,              \* get_all_links: number of <a> tags already iterated
    links_to_check, \* get_all_links / main: set of absolute URLs
    processed_urls, \* module global: URLs already handed to the network
    todo,           \* main: links the for loop has not visited yet
    i,              \* main: number of loop iterations completed
    link,           \* main: loop variable, the argument of the last check_link call
    ret,            \* the value the last check_link call returned
    broken_links,   \* main: list of (link, reason)
    ok_links,       \* main: counter of working links
    log,            \* records written through logging
    progress,       \* stdout: the progress lines
    report,         \* stdout: the final report once printed, else None
    net             \* the network: every request issued, with the reply it got

vars == <<pc, base_url, page, soup, k, links_to_check, processed_urls, todo, i,
          link, ret, broken_links, ok_links, log, progress, report, net>>

-----------------------------------------------------------------------------
(* Python values *)

None == <<>>
Some(x) == <<x>>

\* str.find(c) + 1: position of the first c in s, 0 when there is none
RECURSIVE find(_, _)
find(s, c) ==
    IF s = <<>> THEN 0
    ELSE IF Head(s) = c THEN 1
    ELSE LET r == find(Tail(s), c) IN IF r = 0 THEN 0 ELSE r + 1

startswith(s, prefix) ==
    Len(s) >= Len(prefix) /\ SubSeq(s, 1, Len(prefix)) = prefix

\* s[n:] and s[:n] with Python's 0-based n
From(s, n) == SubSeq(s, n + 1, Len(s))
Upto(s, n) == SubSeq(s, 1, IF n < Len(s) THEN n ELSE Len(s))

RECURSIVE split(_, _)
split(s, c) ==
    LET p == find(s, c) IN
    IF p = 0 THEN <<s>>
    ELSE <<SubSeq(s, 1, p - 1)>> \o split(From(s, p), c)

RECURSIVE join(_, _)
join(parts, c) ==
    IF parts = <<>> THEN <<>>
    ELSE IF Len(parts) = 1 THEN parts[1]
    ELSE parts[1] \o <<c>> \o join(Tail(parts), c)

ascii_lowercase == <<"a", "b", "c", "d", "e", "f", "g", "h", "i", "j", "k", "l", "m", "n", "o", "p", "q", "r", "s", "t", "u", "v", "w", "x", "y", "z">>
ascii_uppercase == <<"A", "B", "C", "D", "E", "F", "G", "H", "I", "J", "K", "L", "M", "N", "O", "P", "Q", "R", "S", "T", "U", "V", "W", "X", "Y", "Z">>
digits == <<"0", "1", "2", "3", "4", "5", "6", "7", "8", "9">>

Range(s) == {s[n] : n \in DOMAIN s}

isalpha(c) == c \in Range(ascii_lowercase) \cup Range(ascii_uppercase)

lower_char(c) ==
    IF c \in Range(ascii_uppercase)
    THEN ascii_lowercase[CHOOSE n \in DOMAIN ascii_uppercase : ascii_uppercase[n] = c]
    ELSE c

lower(s) == [n \in DOMAIN s |-> lower_char(s[n])]

-----------------------------------------------------------------------------
(* urllib.parse, as called at src/main.py lines 22 and 53.  The inputs     *)
(* below contain no whitespace, no ';' and no '[' or ']', so stripping,    *)
(* params splitting and the IPv6 bracket checks never apply.               *)

scheme_chars ==
    Range(ascii_lowercase) \cup Range(ascii_uppercase) \cup Range(digits)
        \cup {"+", "-", "."}

uses_relative ==
    { <<>>, <<"f", "t", "p">>, <<"h", "t", "t", "p">>, <<"g", "o", "p", "h", "e", "r">>, <<"n", "n", "t", "p">>, <<"i", "m", "a", "p">>, <<"w", "a", "i", "s">>, <<"f", "i", "l", "e">>, <<"h", "t", "t", "p", "s">>,
      <<"s", "h", "t", "t", "p">>, <<"m", "m", "s">>, <<"p", "r", "o", "s", "p", "e", "r", "o">>, <<"r", "t", "s", "p">>, <<"r", "t", "s", "p", "u">>, <<"s", "f", "t", "p">>, <<"s", "v", "n">>, <<"s", "v", "n", "+", "s", "s", "h">>,
      <<"w", "s">>, <<"w", "s", "s">> }

uses_netloc ==
    { <<>>, <<"f", "t", "p">>, <<"h", "t", "t", "p">>, <<"g", "o", "p", "h", "e", "r">>, <<"n", "n", "t", "p">>, <<"t", "e", "l", "n", "e", "t">>, <<"i", "m", "a", "p">>, <<"w", "a", "i", "s">>, <<"f", "i", "l", "e">>,
      <<"m", "m", "s">>, <<"h", "t", "t", "p", "s">>, <<"s", "h", "t", "t", "p">>, <<"s", "n", "e", "w", "s">>, <<"p", "r", "o", "s", "p", "e", "r", "o">>, <<"r", "t", "s", "p">>, <<"r", "t", "s", "p", "u">>, <<"r", "s", "y", "n", "c">>,
      <<"s", "v", "n">>, <<"s", "v", "n", "+", "s", "s", "h">>, <<"s", "f", "t", "p">>, <<"n", "f", "s">>, <<"g", "i", "t">>, <<"g", "i", "t", "+", "s", "s", "h">>, <<"w", "s">>, <<"w", "s", "s">> }

\* s.split(c, 1) of a string that may hold no c: (before, after), after empty
\* when there is no c
cut(s, p) == IF p > 0 THEN <<SubSeq(s, 1, p - 1), From(s, p)>> ELSE <<s, <<>>>>
partition(s, c) == cut(s, find(s, c))

\* urlsplit: "if i > 0 and url[0].isalpha()" and the for/else over url[:i],
\* with c = i + 1
has_scheme(url, c) ==
    /\ c > 1
    /\ isalpha(url[1])
    /\ \A n \in 1..(c - 1) : url[n] \in scheme_chars

\* (scheme, url) after the scheme is taken off
cut_scheme(url, default_scheme, c) ==
    IF has_scheme(url, c)
    THEN <<lower(SubSeq(url, 1, c - 1)), From(url, c)>>
    ELSE <<default_scheme, url>>

\* _splitnetloc(url, 2): 0-based position of the first of "/?#" at or after 2
splitnetloc_delim(url) ==
    LET hits == {n \in 3..Len(url) : url[n] \in {"/", "?", "#"}} IN
    IF hits = {} THEN Len(url)
    ELSE (CHOOSE n \in hits : \A m \in hits : n <= m) - 1

\* (netloc, url) after "if url[:2] == '//'"
cut_netloc(url, delim) ==
    IF Upto(url, 2) = <<"/", "/">>
    THEN <<SubSeq(url, 3, delim), From(url, delim)>>
    ELSE <<<<>>, url>>

urlparse_result(scheme, netloc, path_query, fragment) ==
    [scheme |-> scheme, netloc |-> netloc, path |-> path_query[1],
     query |-> path_query[2], fragment |-> fragment]

urlparse_fragment(scheme, netloc, url_fragment) ==
    urlparse_result(scheme, netloc, partition(url_fragment[1], "?"), url_fragment[2])

urlparse_netloc(scheme, netloc_url) ==
    urlparse_fragment(scheme, netloc_url[1], partition(netloc_url[2], "#"))

urlparse_scheme(scheme_url) ==
    urlparse_netloc(scheme_url[1],
                    cut_netloc(scheme_url[2], splitnetloc_delim(scheme_url[2])))

\* urlparse(url, scheme=default_scheme) without its params field: the scheme,
\* then the netloc, then the fragment, then the query are cut off the url
urlparse(url, default_scheme) ==
    urlparse_scheme(cut_scheme(url, default_scheme, find(url, ":")))

\* urlunsplit: "if netloc or (scheme and scheme in uses_netloc and url[:2] != '//')"
unparse_netloc(scheme, netloc, path) ==
    IF netloc # <<>>
           \/ (scheme # <<>> /\ scheme \in uses_netloc /\ Upto(path, 2) # <<"/", "/">>)
    THEN <<"/", "/">> \o netloc
             \o (IF path # <<>> /\ Upto(path, 1) # <<"/">> THEN <<"/">> ELSE <<>>)
             \o path
    ELSE path

urlunparse(scheme, netloc, path, query, fragment) ==
    (IF scheme # <<>> THEN scheme \o <<":">> ELSE <<>>)
        \o unparse_netloc(scheme, netloc, path)
        \o (IF query # <<>> THEN <<"?">> \o query ELSE <<>>)
        \o (IF fragment # <<>> THEN <<"#">> \o fragment ELSE <<>>)

\* segments[1:-1] = filter(None, segments[1:-1])
filter_middle(segments) ==
    IF Len(segments) <= 2 THEN segments
    ELSE <<segments[1]>>
             \o SelectSeq(SubSeq(segments, 2, Len(segments) - 1), LAMBDA s : s # <<>>)
             \o <<segments[Len(segments)]>>

\* the loop over segments that resolves "." and ".."
RECURSIVE resolve_dots(_, _)
resolve_dots(segments, resolved_path) ==
    IF segments = <<>> THEN resolved_path
    ELSE IF Head(segments) = <<".", ".">>
    THEN resolve_dots(Tail(segments),
                      IF resolved_path = <<>> THEN <<>>
                      ELSE SubSeq(resolved_path, 1, Len(resolved_path) - 1))
    ELSE IF Head(segments) = <<".">>
    THEN resolve_dots(Tail(segments), resolved_path)
    ELSE resolve_dots(Tail(segments), Append(resolved_path, Head(segments)))

\* base_parts: bpath.split('/') without its last item unless that is empty
base_parts(bsplit) ==
    IF bsplit[Len(bsplit)] # <<>> THEN SubSeq(bsplit, 1, Len(bsplit) - 1) ELSE bsplit

\* segments: of the path alone when it is rooted, else of base path and path
join_segments(path, bpath) ==
    IF Upto(path, 1) = <<"/">> THEN split(path, "/")
    ELSE filter_middle(base_parts(split(bpath, "/")) \o split(path, "/"))

or_root(path) == IF path = <<>> THEN <<"/">> ELSE path

resolved_path(segments) ==
    or_root(join(resolve_dots(segments, <<>>)
                     \o (IF segments[Len(segments)] \in {<<".">>, <<".", ".">>}
                         THEN <<<<>>>> ELSE <<>>),
                 "/"))

\* urljoin once base and url are parsed
urljoin_parsed(url, b, u) ==
    IF u.scheme # b.scheme \/ u.scheme \notin uses_relative THEN url
    ELSE IF u.scheme \in uses_netloc /\ u.netloc # <<>>
    THEN urlunparse(u.scheme, u.netloc, u.path, u.query, u.fragment)
    ELSE urlunparse(u.scheme,
                    IF u.scheme \in uses_netloc THEN b.netloc ELSE u.netloc,
                    IF u.path = <<>> THEN b.path
                    ELSE resolved_path(join_segments(u.path, b.path)),
                    IF u.path = <<>> /\ u.query = <<>> THEN b.query ELSE u.query,
                    u.fragment)

urljoin_base(url, b) == urljoin_parsed(url, b, urlparse(url, b.scheme))

urljoin(base, url) ==
    IF base = <<>> THEN url
    ELSE IF url = <<>> THEN base
    ELSE urljoin_base(url, urlparse(base, <<>>))

-----------------------------------------------------------------------------
(* requests, as called at src/main.py lines 36, 38 and 80 *)

\* requests.exceptions: every class an exception of class cls is an instance of
Bases(cls) ==
    CASE cls = "RequestException"     -> {"RequestException"}
      [] cls = "HTTPError"            -> {"HTTPError", "RequestException"}
      [] cls = "ConnectionError"      -> {"ConnectionError", "RequestException"}
      [] cls = "SSLError"             -> {"SSLError", "ConnectionError", "RequestException"}
      [] cls = "Timeout"              -> {"Timeout", "RequestException"}
      [] cls = "ConnectTimeout"       -> {"ConnectTimeout", "ConnectionError", "Timeout",
                                          "RequestException"}
      [] cls = "ReadTimeout"          -> {"ReadTimeout", "Timeout", "RequestException"}
      [] cls = "TooManyRedirects"     -> {"TooManyRedirects", "RequestException"}
      [] cls = "ChunkedEncodingError" -> {"ChunkedEncodingError", "RequestException"}
      [] cls = "MissingSchema"        -> {"MissingSchema", "RequestException", "ValueError"}
      [] cls = "InvalidSchema"        -> {"InvalidSchema", "RequestException", "ValueError"}
      [] cls = "InvalidURL"           -> {"InvalidURL", "RequestException", "ValueError"}

isinstance(e, cls) == cls \in Bases(e.cls)

\* an exception object; text is str(e)
Raised(cls, text) == [kind |-> "exception", cls |-> cls, text |-> text]

\* a response object; reason is the reason phrase the server sent
Response(status_code, reason) ==
    [kind |-> "response", status_code |-> status_code, reason |-> reason]

Responses ==
    { Response(200, "OK"), Response(300, "Multiple Choices"), Response(399, ""),
      Response(400, "Bad Request"), Response(404, "Not Found") }

TransportFailures ==
    { Raised("ReadTimeout", "Read timed out. (read timeout=10)"),
      Raised("ConnectTimeout", "Connection to host timed out. (connect timeout=10)"),
      Raised("TooManyRedirects", "Exceeded 30 redirects."),
      Raised("ConnectionError", "Failed to establish a new connection"),
      Raised("SSLError", "certificate verify failed"),
      Raised("ChunkedEncodingError", "Connection broken: IncompleteRead") }

PrepareFailures ==
    { Raised("MissingSchema", "Invalid URL: No scheme supplied."),
      Raised("InvalidSchema", "No connection adapters were found"),
      Raised("InvalidURL", "Invalid URL: No host supplied") }

\* Session.get_adapter: a connection adapter is mounted for these two prefixes only
has_adapter(url) ==
    startswith(lower(url), <<"h", "t", "t", "p", ":", "/", "/">>) \/ startswith(lower(url), <<"h", "t", "t", "p", "s", ":", "/", "/">>)

\* what requests.get(url, ...) / requests.head(url, ...) can come back with
RequestOutcomes(url) ==
    IF has_adapter(url) THEN Responses \cup TransportFailures ELSE PrepareFailures

\* Response.raise_for_status(): raises HTTPError for 4xx and 5xx
raise_for_status(response) ==
    IF 400 <= response.status_code /\ response.status_code < 600
    THEN Some(Raised("HTTPError",
                     ToString(response.status_code) \o " Error: " \o response.reason))
    ELSE None

Request(method, url, outcome) == [method |-> method, url |-> url, outcome |-> outcome]

-----------------------------------------------------------------------------
(* src/main.py *)

LogRecord(level, msg, url, arg) ==
    [level |-> level, msg |-> msg, url |-> url, arg |-> arg]

\* fault: only the scheme is looked at
is_valid_url_scheme_only(url) == urlparse(url, <<>>).scheme # <<>>

is_valid_url(url) ==
    LET parsed == urlparse(url, <<>>) IN
    parsed.scheme # <<>> /\ parsed.netloc # <<>>

\* fault: the test for page anchors is left out
is_skipped_href_no_anchor(href) ==
    startswith(href, <<"m", "a", "i", "l", "t", "o", ":">>) \/ startswith(href, <<"j", "a", "v", "a", "s", "c", "r", "i", "p", "t", ":">>)

\* line 48: hrefs that are skipped before resolution
is_skipped_href(href) ==
    startswith(href, <<"#">>) \/ startswith(href, <<"m", "a", "i", "l", "t", "o", ":">>)
        \/ startswith(href, <<"j", "a", "v", "a", "s", "c", "r", "i", "p", "t", ":">>)

\* lines 45-57: the body of the loop over the <a> tags, on one href
add_link(links, base, href) ==
    IF is_skipped_href(href) THEN links
    ELSE LET absolute_url == urljoin(base, href) IN
         IF is_valid_url(absolute_url) THEN links \cup {absolute_url} ELSE links

\* fault: the catch-all clause of line 95 is left out
ExceptClauses_no_catch_all == <<"Timeout", "TooManyRedirects", "ConnectionError">>

\* lines 89-95: the except clauses of check_link, in order
ExceptClauses == <<"Timeout", "TooManyRedirects", "ConnectionError", "RequestException">>

\* the message the matching except clause returns
clause_message(clause, e) ==
    CASE clause = "Timeout"          -> "Timeout"
      [] clause = "TooManyRedirects" -> "Too Many Redirects"
      [] clause = "ConnectionError"  -> "Connection Error"
      [] clause = "RequestException" -> "Error Lainnya: " \o e.text

\* fault: "> 400" for ">= 400" at line 82
probe_above_400(outcome) ==
    IF outcome.kind = "response"
    THEN [ret |-> IF outcome.status_code > 400
                  THEN <<Some(outcome.status_code),
                         "Client/Server Error (" \o outcome.reason \o ")">>
                  ELSE <<Some(outcome.status_code), "OK">>,
          raised |-> FALSE]
    ELSE
    LET matching == {n \in DOMAIN ExceptClauses : isinstance(outcome, ExceptClauses[n])} IN
    IF matching = {}
    THEN [ret |-> <<None, "">>, raised |-> TRUE]
    ELSE [ret |-> <<None,
                    clause_message(
                        ExceptClauses[CHOOSE n \in matching : \A m \in matching : n <= m],
                        outcome)>>,
          raised |-> FALSE]

\* lines 77-97: the try block of check_link when the request of line 80
\* comes back with outcome: the value returned, or raised when no except
\* clause matches the exception
probe(outcome) ==
    IF outcome.kind = "response"
    THEN [ret |-> IF outcome.status_code >= 400
                  THEN <<Some(outcome.status_code),
                         "Client/Server Error (" \o outcome.reason \o ")">>
                  ELSE <<Some(outcome.status_code), "OK">>,
          raised |-> FALSE]
    ELSE
    LET matching == {n \in DOMAIN ExceptClauses : isinstance(outcome, ExceptClauses[n])} IN
    IF matching = {}
    THEN [ret |-> <<None, "">>, raised |-> TRUE]
    ELSE [ret |-> <<None,
                    clause_message(
                        ExceptClauses[CHOOSE n \in matching : \A m \in matching : n <= m],
                        outcome)>>,
          raised |-> FALSE]

\* fault: line 75 is left out, the URL is never added to the registry
check_link_unmarked(url, outcome) ==
    IF url \in processed_urls
    THEN [ret |-> <<None, "Skipped (Already Checked)">>, raised |-> FALSE,
          processed_urls |-> processed_urls, sent |-> FALSE]
    ELSE [ret |-> probe(outcome).ret, raised |-> probe(outcome).raised,
          processed_urls |-> processed_urls, sent |-> TRUE]

\* fault: the test of line 72 is inverted
check_link_inverted(url, outcome) ==
    IF url \notin processed_urls
    THEN [ret |-> <<None, "Skipped (Already Checked)">>, raised |-> FALSE,
          processed_urls |-> processed_urls, sent |-> FALSE]
    ELSE [ret |-> probe(outcome).ret, raised |-> probe(outcome).raised,
          processed_urls |-> processed_urls \cup {url}, sent |-> TRUE]

\* check_link(url): the result of the call, the registry afterwards, and
\* whether a request was sent at all
check_link(url, outcome) ==
    IF url \in processed_urls
    THEN [ret |-> <<None, "Skipped (Already Checked)">>, raised |-> FALSE,
          processed_urls |-> processed_urls, sent |-> FALSE]
    ELSE [ret |-> probe(outcome).ret, raised |-> probe(outcome).raised,
          processed_urls |-> processed_urls \cup {url}, sent |-> TRUE]

\* fault: "> 400" for ">= 400" at line 142
record_result_above_400(url, status_code, message, broken, ok) ==
    IF status_code = None
    THEN [broken_links |-> Append(broken, <<url, message>>), ok_links |-> ok]
    ELSE IF status_code[1] > 400
    THEN [broken_links |-> Append(broken, <<url, "Status " \o ToString(status_code[1])>>),
          ok_links |-> ok]
    ELSE [broken_links |-> broken, ok_links |-> ok + 1]

\* lines 139-146: what main does with the value check_link returned
\* (the logging.warning of lines 140 and 143 is in log_result)
record_result(url, status_code, message, broken, ok) ==
    IF status_code = None
    THEN [broken_links |-> Append(broken, <<url, message>>), ok_links |-> ok]
    ELSE IF status_code[1] >= 400
    THEN [broken_links |-> Append(broken, <<url, "Status " \o ToString(status_code[1])>>),
          ok_links |-> ok]
    ELSE [broken_links |-> broken, ok_links |-> ok + 1]

log_result(url, status_code, message) ==
    IF status_code = None
    THEN <<LogRecord("WARNING", "  -> RUSAK (Alasan)", url, message)>>
    ELSE IF status_code[1] >= 400
    THEN <<LogRecord("WARNING", "  -> RUSAK (Status)", url,
                     ToString(status_code[1]) \o " " \o message)>>
    ELSE <<>>

\* fault: the early return of lines 123-125 is never taken
no_links_never(links) == FALSE

\* line 123: if not links_to_check
no_links(links) == links = {}

\* line 135: link[:75]
TRUNCATE == 75

-----------------------------------------------------------------------------
(* inputs *)

MaxHrefs == 2

Seeds ==
    { <<"h", "t", "t", "p", "s", ":", "/", "/", "s", "i", "t", "e", ".", "t", "e", "s", "t">>, <<"h", "t", "t", "p", ":", "/", "/", "s", "i", "t", "e", ".", "t", "e", "s", "t", "/", "a", "/", "b">>, <<"f", "t", "p", ":", "/", "/", "s", "i", "t", "e", ".", "t", "e", "s", "t", "/">>,
      <<"n", "o", "t", "-", "a", "-", "u", "r", "l">>, <<"/", "/", "s", "i", "t", "e", ".", "t", "e", "s", "t">>, <<"h", "t", "t", "p", "s", ":", "s", "i", "t", "e">> }

\* scenario 1 of the specification
ScenarioHrefs == { <<"/", "a", "b", "o", "u", "t">>, <<"#", "t", "o", "p">>, <<"m", "a", "i", "l", "t", "o", ":", "a", "@", "b", ".", "c", "o", "m">>, <<"h", "t", "t", "p", "s", ":", "/", "/", "o", "t", "h", "e", "r", ".", "t", "e", "s", "t", "/", "o", "k">> }

Hrefs ==
    ScenarioHrefs \cup
    { <<>>, <<".", ".", "/", "x">>, <<"/", "/", "c", "d", "n", ".", "t", "e", "s", "t", "/", "x">>, <<"j", "a", "v", "a", "s", "c", "r", "i", "p", "t", ":", "v", "o", "i", "d", "(", "0", ")">>, <<"t", "e", "l", ":", "1", "2", "3">>,
      <<"f", "t", "p", ":", "/", "/", "o", "t", "h", "e", "r", ".", "t", "e", "s", "t", "/", "f">>, <<"h", "t", "t", "p", ":", "f", "o", "o">>, <<"H", "T", "T", "P", "S", ":", "/", "/", "o", "t", "h", "e", "r", ".", "t", "e", "s", "t", "/", "o", "k">> }

Pages(H) == UNION {[1..n -> H] : n \in 0..MaxHrefs}

ProbeUrls == { <<"h", "t", "t", "p", "s", ":", "/", "/", "s", "i", "t", "e", ".", "t", "e", "s", "t", "/", "a", "b", "o", "u", "t">>, <<"h", "t", "t", "p", "s", ":", "/", "/", "o", "t", "h", "e", "r", ".", "t", "e", "s", "t", "/", "o", "k">>, <<"f", "t", "p", ":", "/", "/", "o", "t", "h", "e", "r", ".", "t", "e", "s", "t", "/", "f">> }

-----------------------------------------------------------------------------
(* states and steps *)

Start(where, seeds, pages, registries) ==
    /\ pc = where
    /\ base_url \in seeds
    /\ page \in pages
    /\ processed_urls \in registries
    /\ soup = None
    /\ k = 0
    /\ links_to_check = {}
    /\ todo = {}
    /\ i = 0
    /\ link = <<>>
    /\ ret = <<None, "">>
    /\ broken_links = <<>>
    /\ ok_links = 0
    /\ log = <<>>
    /\ progress = <<>>
    /\ report = None
    /\ net = <<>>

\* python main.py <url>: the registry is the empty set of line 18
Init == Start("main", Seeds, Pages(ScenarioHrefs), {{}})

\* get_all_links(base_url) called on its own
InitExtract == Start("get_all_links", Seeds, Pages(Hrefs), {{}})

\* check_link(url) called on its own, whatever the registry holds
InitCheckLink == Start("check_link", {<<>>}, {<<>>}, SUBSET ProbeUrls)

\* lines 111-118
Main ==
    /\ pc = "main"
    /\ IF ~is_valid_url(base_url)
       THEN /\ log' = Append(log, LogRecord("ERROR", "URL tidak valid", base_url, ""))
            /\ pc' = "done"
       ELSE /\ log' = Append(log, LogRecord("INFO", "Memulai pemindaian di", base_url, ""))
            /\ pc' = "get_all_links"
    /\ UNCHANGED <<base_url, page, soup, k, links_to_check, processed_urls, todo, i,
                   link, ret, broken_links, ok_links, progress, report, net>>

\* lines 32-41 and 59-62: the page is fetched and parsed, or the failure is
\* logged and the empty set returned
GetPage ==
    /\ pc = "get_all_links"
    /\ \E outcome \in RequestOutcomes(base_url) :
        LET e == IF outcome.kind = "exception" THEN Some(outcome)
                 ELSE raise_for_status(outcome)
        IN  /\ net' = Append(net, Request("GET", base_url, outcome))
            /\ IF e = None
               THEN /\ soup' = Some(page)
                    /\ pc' = "extract"
                    /\ log' = log
               ELSE /\ soup' = soup
                    /\ pc' = IF isinstance(e[1], "RequestException")
                             THEN "returned" ELSE "crashed"
                    /\ log' = IF isinstance(e[1], "RequestException")
                              THEN Append(log, LogRecord("ERROR", "Gagal mengambil",
                                                         base_url, e[1].text))
                              ELSE log
    /\ links_to_check' = {}
    /\ k' = 0
    /\ UNCHANGED <<base_url, page, processed_urls, todo, i, link, ret, broken_links,
                   ok_links, progress, report>>

\* lines 44-57: one iteration of the loop over the <a> tags
ExtractHref ==
    /\ pc = "extract"
    /\ k < Len(soup[1])
    /\ links_to_check' = add_link(links_to_check, base_url, soup[1][k + 1])
    /\ k' = k + 1
    /\ UNCHANGED <<pc, base_url, page, soup, processed_urls, todo, i, link, ret,
                   broken_links, ok_links, log, progress, report, net>>

\* line 62, after the loop
ReturnLinks ==
    /\ pc = "extract"
    /\ k = Len(soup[1])
    /\ pc' = "returned"
    /\ UNCHANGED <<base_url, page, soup, k, links_to_check, processed_urls, todo, i,
                   link, ret, broken_links, ok_links, log, progress, report, net>>

\* lines 123-130
CheckLinks ==
    /\ pc = "returned"
    /\ IF no_links(links_to_check)
       THEN /\ log' = Append(log, LogRecord("WARNING",
                                 "Tidak ada tautan eksternal yang ditemukan", <<>>, ""))
            /\ pc' = "done"
            /\ UNCHANGED <<todo>>
       ELSE /\ log' = Append(log, LogRecord("INFO", "Menemukan tautan unik", <<>>,
                                            ToString(Cardinality(links_to_check))))
            /\ pc' = "loop"
            /\ todo' = links_to_check
    /\ broken_links' = <<>>
    /\ ok_links' = 0
    /\ i' = 0
    /\ UNCHANGED <<base_url, page, soup, k, links_to_check, processed_urls, link, ret,
                   progress, report, net>>

\* lines 133-146: one iteration of the loop over links_to_check, in the
\* order the set happens to iterate
ProbeLink ==
    /\ pc = "loop"
    /\ \E l \in todo : \E outcome \in RequestOutcomes(l) :
        LET r == check_link(l, outcome)
            acc == record_result(l, r.ret[1], r.ret[2], broken_links, ok_links)
        IN  /\ link' = l
            /\ progress' = Append(progress,
                                  <<i + 1, Cardinality(links_to_check), Upto(l, TRUNCATE)>>)
            /\ processed_urls' = r.processed_urls
            /\ net' = IF r.sent THEN Append(net, Request("HEAD", l, outcome)) ELSE net
            /\ IF r.raised
               THEN /\ pc' = "crashed"
                    /\ UNCHANGED <<ret, broken_links, ok_links, log, todo, i>>
               ELSE /\ ret' = r.ret
                    /\ broken_links' = acc.broken_links
                    /\ ok_links' = acc.ok_links
                    /\ log' = log \o log_result(l, r.ret[1], r.ret[2])
                    /\ todo' = todo \ {l}
                    /\ i' = i + 1
                    /\ pc' = pc
    /\ UNCHANGED <<base_url, page, soup, k, links_to_check, report>>

\* lines 148-162, once the loop is over
PrintReport ==
    /\ pc = "loop"
    /\ todo = {}
    /\ report' = Some([page |-> base_url,
                       total |-> Cardinality(links_to_check),
                       ok |-> ok_links,
                       broken |-> Len(broken_links),
                       list |-> broken_links])
    /\ log' = Append(log, LogRecord("INFO", "Pemeriksaan selesai.", <<>>, ""))
    /\ pc' = "done"
    /\ UNCHANGED <<base_url, page, soup, k, links_to_check, processed_urls, todo, i,
                   link, ret, broken_links, ok_links, progress, net>>

\* a direct call check_link(url)
CallCheckLink ==
    /\ pc = "check_link"
    /\ \E url \in ProbeUrls : \E outcome \in RequestOutcomes(url) :
        LET r == check_link(url, outcome) IN
        /\ link' = url
        /\ processed_urls' = r.processed_urls
        /\ net' = IF r.sent THEN Append(net, Request("HEAD", url, outcome)) ELSE net
        /\ ret' = IF r.raised THEN ret ELSE r.ret
        /\ pc' = IF r.raised THEN "crashed" ELSE pc
    /\ UNCHANGED <<base_url, page, soup, k, links_to_check, todo, i, broken_links,
                   ok_links, log, progress, report>>

Next == Main \/ GetPage \/ ExtractHref \/ ReturnLinks \/ CheckLinks \/ ProbeLink
            \/ PrintReport

NextExtract == GetPage \/ ExtractHref \/ ReturnLinks

Spec == Init /\ [][Next]_vars

\* the program is one sequential thread and every request returns: while
\* links are left the loop goes on, and after it the report is printed
FairSpec == Spec /\ WF_vars(ProbeLink) /\ WF_vars(PrintReport)

SpecExtract == InitExtract /\ [][NextExtract]_vars

SpecCheckLink == InitCheckLink /\ [][CallCheckLink]_vars

-----------------------------------------------------------------------------
(* properties *)

Skipped == <<None, "Skipped (Already Checked)">>

\* the HEAD requests sent to url so far
Heads(url) == {n \in DOMAIN net : net[n].method = "HEAD" /\ net[n].url = url}

AnyHead == \E n \in DOMAIN net : net[n].method = "HEAD"

\* the failure categories, told from the class of the exception alone
IsTimeout(cls) == cls \in {"Timeout", "ReadTimeout", "ConnectTimeout"}
IsRedirectLoop(cls) == cls = "TooManyRedirects"
IsConnectionFailure(cls) == cls \in {"ConnectionError", "SSLError"}

CategoryText(e) ==
    IF IsTimeout(e.cls) THEN "Timeout"
    ELSE IF IsRedirectLoop(e.cls) THEN "Too Many Redirects"
    ELSE IF IsConnectionFailure(e.cls) THEN "Connection Error"
    ELSE "Error Lainnya: " \o e.text

\* C1, one call of check_link: the registry only grows; a call on a URL in
\* the registry returns (None, Skipped), sends nothing and leaves the
\* registry alone; a call on a URL not in it adds the URL and sends exactly
\* one HEAD request to it
C1_Call ==
    /\ processed_urls \subseteq processed_urls'
    /\ link' \in processed_urls =>
           /\ ret' = Skipped
           /\ net' = net
           /\ processed_urls' = processed_urls
    /\ link' \notin processed_urls =>
           /\ processed_urls' = processed_urls \cup {link'}
           /\ Len(net') = Len(net) + 1
           /\ SubSeq(net', 1, Len(net)) = net
           /\ net'[Len(net')].method = "HEAD"
           /\ net'[Len(net')].url = link'

\* C1: over any sequence of check_link calls from any registry content, every
\* call behaves as C1_Call says, no URL is ever sent more than one HEAD
\* request, and a URL that was sent one is in the registry
C1_ProbedAtMostOnce ==
    /\ [][C1_Call]_vars
    /\ [](\A u \in ProbeUrls :
              /\ Cardinality(Heads(u)) <= 1
              /\ Heads(u) # {} => u \in processed_urls)

\* C1 witness: a URL that was probed (and failed) is checked again and skipped
C1_Witness ==
    /\ ret = Skipped
    /\ Cardinality(Heads(link)) = 1
    /\ \E n \in Heads(link) : net[n].outcome.kind = "exception"
    /\ \E u \in processed_urls : Heads(u) = {}

\* C2: when check_link has sent its request, the value it returns is
\* (status, "OK") for a status below 400, (status, Client/Server Error) for a
\* status of 400 or more, and (None, category) for a timeout, a redirect
\* loop, a connection failure or any other request failure; never OK when no
\* response came back
C2_Classification ==
    (net # <<>> /\ ret # Skipped) =>
        LET o == net[Len(net)].outcome IN
        /\ (o.kind = "response" /\ o.status_code < 400) =>
               ret = <<Some(o.status_code), "OK">>
        /\ (o.kind = "response" /\ o.status_code >= 400) =>
               ret = <<Some(o.status_code), "Client/Server Error (" \o o.reason \o ")">>
        /\ o.kind = "exception" =>
               /\ ret = <<None, CategoryText(o)>>
               /\ ret[2] # "OK"

\* C2 witness: a 399 was classified OK and then a 400 an error
C2_Witness ==
    /\ Len(net) >= 2
    /\ net[Len(net) - 1].outcome = Response(399, "")
    /\ net[Len(net)].outcome = Response(400, "Bad Request")
    /\ ret = <<Some(400), "Client/Server Error (Bad Request)">>

\* C3: in a scan no link is sent more than one HEAD request, only extracted
\* links are probed, no check returns Skipped, and once the report is out
\* every extracted link has been sent exactly one
C3_EachLinkOnce ==
    /\ \A n \in DOMAIN net :
           net[n].method = "HEAD" =>
               /\ net[n].url \in links_to_check
               /\ Cardinality(Heads(net[n].url)) = 1
    /\ ret # Skipped
    /\ \A n \in DOMAIN broken_links : broken_links[n][2] # Skipped[2]
    /\ report # None => \A u \in links_to_check : Cardinality(Heads(u)) = 1

\* C3 witness: the report of a scan of two links
C3_Witness ==
    /\ report # None
    /\ Cardinality(links_to_check) = 2
    /\ processed_urls = links_to_check

SeedInvalid ==
    urlparse(base_url, <<>>).scheme = <<>> \/ urlparse(base_url, <<>>).netloc = <<>>

\* C4: with a seed URL that has no scheme or no host, nothing is ever sent,
\* the registry stays empty, nothing is printed, and main returns after
\* logging the invalid-URL error
C4_InvalidSeed ==
    SeedInvalid =>
        /\ net = <<>>
        /\ processed_urls = {}
        /\ report = None
        /\ progress = <<>>
        /\ pc \in {"main", "done"}
        /\ pc = "done" => log = <<LogRecord("ERROR", "URL tidak valid", base_url, "")>>

\* C4 witness: main has returned on the seed not-a-url
C4_Witness ==
    /\ base_url = <<"n", "o", "t", "-", "a", "-", "u", "r", "l">>
    /\ pc = "done"
    /\ Len(log) = 1

\* the reply to the GET of the seed page is an exception or a status that is not 2xx
SeedFetchFailed ==
    /\ net # <<>>
    /\ net[1].method = "GET"
    /\ \/ net[1].outcome.kind = "exception"
       \/ net[1].outcome.status_code \notin 200..299

\* C5: when the fetch of the seed page fails, the page is not parsed, there
\* are no links, the cause is logged, no link is probed and the registry is
\* unchanged
C5_FetchFailure ==
    SeedFetchFailed =>
        /\ soup = None
        /\ links_to_check = {}
        /\ ~AnyHead
        /\ processed_urls = {}
        /\ \E n \in DOMAIN log : log[n].level = "ERROR" /\ log[n].msg = "Gagal mengambil"

\* the seed page was fetched and parsed, no link came out of it, and main is over
SeedFetchedNoLinks ==
    /\ soup # None
    /\ links_to_check = {}
    /\ pc = "done"

NoLinksWarning ==
    \E n \in DOMAIN log :
        /\ log[n].level = "WARNING"
        /\ log[n].msg = "Tidak ada tautan eksternal yang ditemukan"

\* C6 as stated: a fetched page without links ends with the warning, no
\* probe, and a report showing 0 links checked
C6_ReportOfZero ==
    SeedFetchedNoLinks =>
        /\ NoLinksWarning
        /\ ~AnyHead
        /\ report # None
        /\ report[1].total = 0

\* C6 as amended: a fetched page without links ends with the warning, no
\* probe, an untouched registry, and no report at all
C6_WarningNoReport ==
    SeedFetchedNoLinks =>
        /\ NoLinksWarning
        /\ ~AnyHead
        /\ processed_urls = {}
        /\ progress = <<>>
        /\ report = None

\* C6 witness: a page whose only hrefs are skipped ones, main returned
C6_Witness ==
    /\ SeedFetchedNoLinks
    /\ soup[1] # <<>>
    /\ NoLinksWarning

\* C7: once the links of a valid seed are extracted and there is at least
\* one, then whatever the probes come back with, all links are probed and
\* the report is printed
C7_ReportEventually ==
    (pc = "loop") ~> (pc = "done" /\ report # None /\ todo = {})

\* C7 witness: a report after two probes that both failed without a response
C7_Witness ==
    /\ report # None
    /\ Len(broken_links) = 2
    /\ \A n \in DOMAIN net : net[n].method = "HEAD" => net[n].outcome.kind = "exception"

\* the reason main files a broken link under
ExpectedReason(o) ==
    IF o.kind = "response" THEN "Status " \o ToString(o.status_code)
    ELSE CategoryText(o)

Working(o) == o.kind = "response" /\ o.status_code < 400

\* C8: after every iteration working + broken = iterations; the report's
\* total is working + broken and is the number of links; a link is counted
\* working exactly when its probe came back with a status below 400, else it
\* is in the broken list under "Status <code>" or the failure category
C8_Accounting ==
    /\ ok_links + Len(broken_links) = i
    /\ i = Cardinality({n \in DOMAIN net : net[n].method = "HEAD"})
    /\ ok_links = Cardinality({n \in DOMAIN net :
                                   net[n].method = "HEAD" /\ Working(net[n].outcome)})
    /\ \A n \in DOMAIN net :
           net[n].method = "HEAD" =>
               IF Working(net[n].outcome)
               THEN \A m \in DOMAIN broken_links : broken_links[m][1] # net[n].url
               ELSE /\ \E m \in DOMAIN broken_links :
                           broken_links[m] = <<net[n].url, ExpectedReason(net[n].outcome)>>
                    /\ net[n].outcome = Response(404, "Not Found") =>
                           \E m \in DOMAIN broken_links :
                               broken_links[m] = <<net[n].url, "Status 404">>
    /\ report # None =>
           /\ report[1].total = report[1].ok + report[1].broken
           /\ report[1].total = Cardinality(links_to_check)
           /\ report[1].ok = ok_links
           /\ report[1].list = broken_links

\* C8 witness: a report with one working link, and one broken with a 404
C8_Witness ==
    /\ report # None
    /\ report[1].ok = 1
    /\ report[1].broken = 1
    /\ report[1].list[1][2] = "Status 404"

\* C9: every URL in the checking set has an http or https scheme and a
\* non-empty host
C9_HttpLinksOnly ==
    \A u \in links_to_check :
        /\ urlparse(u, <<>>).scheme \in {<<"h", "t", "t", "p">>, <<"h", "t", "t", "p", "s">>}
        /\ urlparse(u, <<>>).netloc # <<>>

HasSkippedPrefix(href) ==
    \E p \in {<<"#">>, <<"m", "a", "i", "l", "t", "o", ":">>, <<"j", "a", "v", "a", "s", "c", "r", "i", "p", "t", ":">>} :
        Len(href) >= Len(p) /\ \A n \in 1..Len(p) : href[n] = p[n]

\* the hrefs of the <a> tags iterated so far
Iterated == {soup[1][n] : n \in 1..k}

\* C10 as stated: the link set is the set of the resolutions of the hrefs
\* that do not start with #, mailto: or javascript:
C10_AllOthersAccepted ==
    soup # None =>
        links_to_check = {urljoin(base_url, h) : h \in {g \in Iterated : ~HasSkippedPrefix(g)}}

Accepted(url) == urlparse(url, <<>>).scheme # <<>> /\ urlparse(url, <<>>).netloc # <<>>

\* C10 as amended: the link set is the set of the resolutions, having a
\* scheme and a netloc, of the hrefs that do not start with #, mailto: or
\* javascript:
C10_OthersAcceptedIfValid ==
    soup # None =>
        links_to_check =
            {u \in {urljoin(base_url, h) : h \in {g \in Iterated : ~HasSkippedPrefix(g)}} :
                 Accepted(u)}

\* C10 witness: a page with a mail link and a relative link, extracted in full
C10_Witness ==
    /\ pc = "returned"
    /\ base_url = <<"h", "t", "t", "p", "s", ":", "/", "/", "s", "i", "t", "e", ".", "t", "e", "s", "t">>
    /\ soup = Some(<<<<"m", "a", "i", "l", "t", "o", ":", "a", "@", "b", ".", "c", "o", "m">>, <<"/", "a", "b", "o", "u", "t">>>>)
    /\ links_to_check = {<<"h", "t", "t", "p", "s", ":", "/", "/", "s", "i", "t", "e", ".", "t", "e", "s", "t", "/", "a", "b", "o", "u", "t">>}
====
